---- MODULE Spec2Model ----
(***************************************************************************)
(* Model of the drill dashboard (App.jsx): the synthetic signal generator  *)
(* with its module-level cycle counter, the auto-send interval, the store  *)
(* writes in flight, the realtime feed subscription, and the feature       *)
(* window built for the two prediction calls.                              *)
(*                                                                         *)
(* Numbers with decimals are kept as scaled integers: temperatures, loads  *)
(* and depths in hundredths, vibration in thousandths, Math.random() draws *)
(* in thousandths of the unit interval.  A field of a feed record that is  *)
(* undefined is the empty tuple <<>>, a present value v is <<v>>.          *)
(***************************************************************************)
EXTENDS Integers, Sequences, FiniteSets, TLC

VARIABLES
  cycle,          \* module-level counter (line 33)
  genCalls,       \* number of calls of makeRandomDrillValues so far
  values,         \* the sample returned by the latest generator call (line 123)
  pendingWrites,  \* addDoc promises not yet settled (line 124)
  autoRef,        \* autoRef.current: interval handle or Null (line 101)
  intervals,      \* handles of the repeating timers the browser still runs
  nextHandle,     \* next handle setInterval hands out
  autoSending,    \* React state (line 99)
  status,         \* React state (line 98)
  mounted,        \* the App component is mounted
  subscribed,     \* the onSnapshot listener has not been unsubscribed
  records,        \* React state: latest docs, newest first (line 97)
  samplingRate,   \* React state (line 103)
  requests,       \* prediction fetches in flight (lines 207, 218)
  nextWindow,     \* number of the next window the prediction effect posts
  rulPrediction,  \* React state (line 108)
  estimatedTemp,  \* React state (line 109)
  rulFrom,        \* window whose reply set rulPrediction (0: none)
  tempFrom,       \* window whose reply set estimatedTemp (0: none)
  lastOp          \* the handler or callback that ran last

vars == <<cycle, genCalls, values, pendingWrites, autoRef, intervals, nextHandle,
          autoSending, status, mounted, subscribed, records, samplingRate,
          requests, nextWindow, rulPrediction, estimatedTemp, rulFrom, tempFrom, lastOp>>

genVars   == <<cycle, genCalls, values, pendingWrites>>
timerVars == <<autoRef, intervals, nextHandle, autoSending>>
feedVars  == <<records, samplingRate>>
mlVars    == <<requests, nextWindow, rulPrediction, estimatedTemp, rulFrom, tempFrom>>

(***************************************************************************)
(* Bounds of the model.                                                    *)
(***************************************************************************)
MaxCycle == 3        \* generator calls explored by Spec
MaxGenCycle == 5002  \* generator calls explored by GenSpec
MaxPending == 2      \* store writes in flight at once
MaxHandles == 3      \* interval handles setInterval hands out
MaxWindows == 2      \* windows the prediction effect posts

Null == 0            \* useRef(null) / a cleared handle; handles are >= 1

(***************************************************************************)
(* Math.round(n/d) for d > 0: the nearest integer, halves towards +Inf.    *)
(***************************************************************************)
MathRound(n, d) == (2 * n + d) \div (2 * d)

MathMax(a, b) == IF a > b THEN a ELSE b

(***************************************************************************)
(* makeRandomDrillValues, lines 36-46.  c is the counter after cycle++,    *)
(* r1..r4 are the four Math.random() draws in thousandths.                 *)
(*   degradationFactor = c / 1000                                          *)
(*   temp  = +(20 + r1*60 + df*10).toFixed(2)   -> hundredths              *)
(*   rpm   = Math.round(5000 - df*1000)                                    *)
(*   load  = +(r2*30 + df*5).toFixed(2)          -> hundredths             *)
(*   vibration = +(r3*10 + df*2).toFixed(3)      -> thousandths            *)
(*   depth = +(r4*50).toFixed(2)                 -> hundredths             *)
(***************************************************************************)
RandomDraws == {0, 999}

GenRpm(c) == MathRound(5000 * 1000 - c * 1000, 1000)

makeRandomDrillValues(c, r1, r2, r3, r4) ==
  [temp      |-> MathRound(100 * (20 * 1000 + r1 * 60 + c * 10), 1000),
   rpm       |-> GenRpm(c),
   load      |-> MathRound(100 * (r2 * 30 + c * 5), 1000),
   vibration |-> MathRound(1000 * (r3 * 10 + c * 2), 1000),
   depth     |-> MathRound(100 * (r4 * 50), 1000)]

NoValues == [temp |-> 0, rpm |-> 0, load |-> 0, vibration |-> 0, depth |-> 0]

\* one call of makeRandomDrillValues: cycle++ (line 37), then the sample
GeneratorCall(limit) ==
  /\ cycle < limit
  /\ cycle' = cycle + 1
  /\ genCalls' = genCalls + 1
  /\ \E r1 \in RandomDraws, r2 \in RandomDraws, r3 \in RandomDraws, r4 \in RandomDraws :
       values' = makeRandomDrillValues(cycle', r1, r2, r3, r4)

(***************************************************************************)
(* React state setters: a setter called on an unmounted component does     *)
(* nothing.                                                                *)
(***************************************************************************)
SetState(old, new) == IF mounted THEN new ELSE old

ErrMessages == {"unavailable"}

(***************************************************************************)
(* sendRandomToFirestore, lines 121-133, up to the await: the generator    *)
(* runs and addDoc is started.                                             *)
(***************************************************************************)
SendBegin(limit) ==
  /\ pendingWrites < MaxPending
  /\ GeneratorCall(limit)
  /\ pendingWrites' = pendingWrites + 1

\* "Send Random Data" button, line 326
SendRandomClick ==
  /\ mounted
  /\ SendBegin(MaxCycle)
  /\ lastOp' = "send"
  /\ UNCHANGED <<timerVars, status, mounted, subscribed, feedVars, mlVars>>

\* the interval created at line 139 fires
TimerTick ==
  /\ \E h \in intervals : TRUE
  /\ SendBegin(MaxCycle)
  /\ lastOp' = "tick"
  /\ UNCHANGED <<timerVars, status, mounted, subscribed, feedVars, mlVars>>

\* addDoc resolves: line 128
WriteSucceeds ==
  /\ pendingWrites > 0
  /\ pendingWrites' = pendingWrites - 1
  /\ status' = SetState(status, <<"sent">>)
  /\ lastOp' = "write-ok"
  /\ UNCHANGED <<cycle, genCalls, values, timerVars, mounted, subscribed, feedVars, mlVars>>

\* mutant: a failed write also cancels the interval
WriteFailsStopsTimer ==
  /\ pendingWrites > 0
  /\ pendingWrites' = pendingWrites - 1
  /\ \E m \in ErrMessages : status' = SetState(status, <<"error: ", m>>)
  /\ intervals' = intervals \ {autoRef}
  /\ autoRef' = Null
  /\ lastOp' = "write-error"
  /\ UNCHANGED <<cycle, genCalls, values, nextHandle, autoSending, mounted, subscribed,
                 feedVars, mlVars>>

\* addDoc rejects: lines 129-132
WriteFails ==
  /\ pendingWrites > 0
  /\ pendingWrites' = pendingWrites - 1
  /\ \E m \in ErrMessages : status' = SetState(status, <<"error: ", m>>)
  /\ lastOp' = "write-error"
  /\ UNCHANGED <<cycle, genCalls, values, timerVars, mounted, subscribed, feedVars, mlVars>>

(***************************************************************************)
(* startAutoSend, lines 136-141, and stopAutoSend, lines 142-149.          *)
(***************************************************************************)
\* mutant: startAutoSend without the guard of line 137
startAutoSendUnguarded ==
  /\ nextHandle <= MaxHandles
  /\ autoSending' = SetState(autoSending, TRUE)
  /\ autoRef' = nextHandle
  /\ intervals' = intervals \cup {nextHandle}
  /\ nextHandle' = nextHandle + 1
  /\ status' = SetState(status, <<"auto-started">>)

startAutoSendEffect ==
  IF autoRef # Null
    THEN UNCHANGED <<autoRef, intervals, nextHandle, autoSending, status>>
    ELSE /\ nextHandle <= MaxHandles
         /\ autoSending' = SetState(autoSending, TRUE)
         /\ autoRef' = nextHandle
         /\ intervals' = intervals \cup {nextHandle}
         /\ nextHandle' = nextHandle + 1
         /\ status' = SetState(status, <<"auto-started">>)

startAutoSend ==
  /\ mounted
  /\ startAutoSendEffect
  /\ lastOp' = "start"
  /\ UNCHANGED <<genVars, mounted, subscribed, feedVars, mlVars>>

\* mutant: stopAutoSend without setAutoSending(false)
stopAutoSendKeepsFlag ==
  /\ IF autoRef # Null
       THEN /\ intervals' = intervals \ {autoRef}
            /\ autoRef' = Null
       ELSE UNCHANGED <<autoRef, intervals>>
  /\ status' = SetState(status, <<"auto-stopped">>)
  /\ UNCHANGED <<nextHandle, autoSending>>

\* mutant: stopAutoSend returning early when no timer is held
stopAutoSendEarlyReturn ==
  IF autoRef # Null
    THEN /\ intervals' = intervals \ {autoRef}
         /\ autoRef' = Null
         /\ autoSending' = SetState(autoSending, FALSE)
         /\ status' = SetState(status, <<"auto-stopped">>)
         /\ UNCHANGED nextHandle
    ELSE UNCHANGED <<autoRef, intervals, nextHandle, autoSending, status>>

stopAutoSendEffect ==
  /\ IF autoRef # Null
       THEN /\ intervals' = intervals \ {autoRef}
            /\ autoRef' = Null
       ELSE UNCHANGED <<autoRef, intervals>>
  /\ autoSending' = SetState(autoSending, FALSE)
  /\ status' = SetState(status, <<"auto-stopped">>)
  /\ UNCHANGED nextHandle

\* mutant: stopAutoSend also resetting the generator's counter
stopAutoSendResetsCycle ==
  /\ mounted
  /\ stopAutoSendEffect
  /\ cycle' = 0
  /\ lastOp' = "stop"
  /\ UNCHANGED <<genCalls, values, pendingWrites, mounted, subscribed, feedVars, mlVars>>

stopAutoSend ==
  /\ mounted
  /\ stopAutoSendEffect
  /\ lastOp' = "stop"
  /\ UNCHANGED <<genVars, mounted, subscribed, feedVars, mlVars>>

(***************************************************************************)
(* The feed: what the store delivers to the onSnapshot callback, at most   *)
(* limitToShow docs, newest first.  The store is an external collaborator; *)
(* its docs are drawn from DocKinds, which holds fully populated docs and  *)
(* docs with undefined fields, a zero and a negative rpm.                  *)
(***************************************************************************)
limitToShow == 50    \* line 105
WindowSize == 20     \* lines 185, 187
TickMs == 5000       \* line 327, startAutoSend(5000)

DocKinds ==
  << [temp |-> <<3100>>, rpm |-> <<4990>>, load |-> <<1000>>, vibration |-> <<5000>>, depth |-> <<2500>>],
     [temp |-> <<3200>>, rpm |-> <<0>>,    load |-> <<1200>>, vibration |-> <<>>,     depth |-> <<100>>],
     [temp |-> <<3000>>, rpm |-> <<>>,     load |-> <<>>,     vibration |-> <<10>>,   depth |-> <<>>],
     [temp |-> <<>>,     rpm |-> <<-1>>,   load |-> <<2000>>, vibration |-> <<7000>>, depth |-> <<4000>>] >>

NumKinds == Len(DocKinds)

\* the i-th doc (newest first) of a feed of n docs; the newest doc was created last
FeedDoc(n, off, i) ==
  LET k == DocKinds[((off + i - 1) % NumKinds) + 1]
  IN  [id |-> n - i + 1, createdAt |-> <<(n - i + 1) * TickMs>>,
       temp |-> k.temp, rpm |-> k.rpm, load |-> k.load,
       vibration |-> k.vibration, depth |-> k.depth]

Feed(n, off) == [i \in 1..n |-> FeedDoc(n, off, i)]

FeedLens == {0, WindowSize - 1, WindowSize, WindowSize + 1, limitToShow}
FeedOffsets == {0, 1}

FeedInputs == {Feed(n, off) : n \in FeedLens, off \in FeedOffsets}

(***************************************************************************)
(* JavaScript helpers used by the handlers.                                *)
(***************************************************************************)
\* x ?? 0
OrZero(f) == IF f = <<>> THEN 0 ELSE f[1]

\* arr.slice(0, n)
Slice(arr, n) == SubSeq(arr, 1, IF Len(arr) < n THEN Len(arr) ELSE n)

\* arr.reverse()
Reverse(arr) == [i \in 1..Len(arr) |-> arr[Len(arr) + 1 - i]]

RECURSIVE Flat(_)
\* arr.flat()
Flat(rows) == IF rows = <<>> THEN <<>> ELSE Head(rows) \o Flat(Tail(rows))

(***************************************************************************)
(* Sampling rate, lines 160-173.  Every doc of the feed carries createdAt, *)
(* so the sorted times are the createdAt values in ascending order and the *)
(* mean of the consecutive differences is (last - first) / (count - 1).    *)
(***************************************************************************)
SamplingRateOf(arr, old) ==
  IF Len(arr) > 1
    THEN LET times == Reverse([i \in 1..Len(arr) |-> OrZero(arr[i].createdAt)])
         IN  IF Len(times) > 1
               THEN <<"s", MathRound(100 * (times[Len(times)] - times[1]),
                                     1000 * (Len(times) - 1))>>
               ELSE old
    ELSE <<"N/A">>

(***************************************************************************)
(* The prediction effect, lines 184-227.                                   *)
(*   torqueEst = (load * 9.55) / Math.max(rpm, 1) is kept as the fraction  *)
(*   num / den with num = load * 955 (load in hundredths, so the value is  *)
(*   num / (10000 * den)) and den = Math.max(rpm, 1).                      *)
(***************************************************************************)
\* line 187
RecentRecords(recs) == Reverse(Slice(recs, WindowSize))

\* mutant: the first row compared with 0 instead of with itself
PrevTempZeroFirst(recent, i) == IF i > 1 THEN OrZero(recent[i - 1].temp) ELSE 0

\* line 195
PrevTemp(recent, i) == IF i > 1 THEN OrZero(recent[i - 1].temp) ELSE OrZero(recent[i].temp)

\* mutant: the division by rpm without Math.max
TorqueEstUnclamped(load, rpm) == [num |-> load * 955, den |-> rpm]

\* line 197
TorqueEst(load, rpm) == [num |-> load * 955, den |-> MathMax(rpm, 1)]

\* lines 189-199, the row built for index i (1-based)
FeatureRow(recent, i) ==
  LET r == recent[i]
      temp == OrZero(r.temp)
      rpm == OrZero(r.rpm)
      load == OrZero(r.load)
  IN  <<temp, rpm, load, OrZero(r.vibration), OrZero(r.depth),
        temp - PrevTemp(recent, i), TorqueEst(load, rpm)>>

BuildSequence(recent) == [i \in 1..Len(recent) |-> FeatureRow(recent, i)]

\* line 217
SequenceForEst(sequence) == Flat([i \in 1..Len(sequence) |-> Tail(sequence[i])])

\* mutant: the gate opening on any non-empty feed
PredictionGateNonEmpty(recs) == Len(recs) >= 1

\* line 185
PredictionGate(recs) == Len(recs) >= WindowSize

\* the two fetches of lines 207-225, posted for window w
PostedRequests(recs, w) ==
  IF PredictionGate(recs)
    THEN LET sequence == BuildSequence(RecentRecords(recs))
         IN  { [kind |-> "rul",  window |-> w, body |-> <<sequence>>],
               [kind |-> "temp", window |-> w, body |-> SequenceForEst(sequence)] }
    ELSE {}

\* the effect runs after every render that changed records
PredictionEffect(recs) ==
  /\ PredictionGate(recs) => nextWindow <= MaxWindows
  /\ requests' = requests \cup PostedRequests(recs, nextWindow)
  /\ nextWindow' = IF PredictionGate(recs) THEN nextWindow + 1 ELSE nextWindow
  /\ UNCHANGED <<rulPrediction, estimatedTemp, rulFrom, tempFrom>>

\* onSnapshot success callback, lines 156-174, and the effect it triggers
Snapshot ==
  /\ subscribed
  /\ \E arr \in FeedInputs :
       /\ records' = SetState(records, arr)
       /\ samplingRate' = SetState(samplingRate, SamplingRateOf(arr, samplingRate))
       /\ PredictionEffect(SetState(records, arr))
  /\ lastOp' = "snapshot"
  /\ UNCHANGED <<genVars, timerVars, status, mounted, subscribed>>

\* onSnapshot error callback, lines 175-178
ListenError ==
  /\ subscribed
  /\ \E m \in ErrMessages : status' = SetState(status, <<"listen-error: ", m>>)
  /\ lastOp' = "listen-error"
  /\ UNCHANGED <<genVars, timerVars, mounted, subscribed, feedVars, mlVars>>

\* "Clear Local UI" button, lines 333-341, and the effect it triggers
ClearLocalUI ==
  /\ mounted
  /\ records' = <<>>
  /\ status' = <<"cleared local UI">>
  /\ PredictionEffect(<<>>)
  /\ lastOp' = "clear"
  /\ UNCHANGED <<genVars, timerVars, mounted, subscribed, samplingRate>>

(***************************************************************************)
(* The replies of the prediction endpoints, lines 212-214 and 223-225.     *)
(* A reply is a value (rul in tenths, temp_est in thousandths), a JSON     *)
(* body without the field, or a failure of fetch / res.json().             *)
(***************************************************************************)
NullPrediction == <<"null">>
NaN == <<"NaN">>

RulReplies == {<<"value", 475>>, <<"no-field">>, <<"rejected">>}
TempReplies == {<<"value", 71236>>, <<"no-field">>, <<"rejected">>}

\* lines 212-214
RulSettle(reply) ==
  CASE reply[1] = "value"    -> [caught |-> FALSE, set |-> TRUE,  to |-> <<"num", MathRound(reply[2], 10)>>]
    [] reply[1] = "no-field" -> [caught |-> FALSE, set |-> TRUE,  to |-> NaN]
    [] OTHER                 -> [caught |-> TRUE,  set |-> FALSE, to |-> NullPrediction]

\* lines 223-225: undefined.toFixed throws, and the throw is caught
TempSettle(reply) ==
  CASE reply[1] = "value"    -> [caught |-> FALSE, set |-> TRUE,  to |-> <<"str", MathRound(reply[2], 10)>>]
    [] OTHER                 -> [caught |-> TRUE,  set |-> FALSE, to |-> NullPrediction]

RulReply ==
  \E q \in requests, reply \in RulReplies :
    LET s == RulSettle(reply) IN
    /\ q.kind = "rul"
    /\ requests' = requests \ {q}
    /\ rulPrediction' = IF s.set THEN SetState(rulPrediction, s.to) ELSE rulPrediction
    /\ rulFrom' = IF s.set THEN SetState(rulFrom, q.window) ELSE rulFrom
    /\ lastOp' = IF s.caught THEN "rul-caught" ELSE IF s.to = NaN THEN "rul-no-field" ELSE "rul-ok"
    /\ UNCHANGED <<genVars, timerVars, status, mounted, subscribed, feedVars,
                   nextWindow, estimatedTemp, tempFrom>>

TempReply ==
  \E q \in requests, reply \in TempReplies :
    LET s == TempSettle(reply) IN
    /\ q.kind = "temp"
    /\ requests' = requests \ {q}
    /\ estimatedTemp' = IF s.set THEN SetState(estimatedTemp, s.to) ELSE estimatedTemp
    /\ tempFrom' = IF s.set THEN SetState(tempFrom, q.window) ELSE tempFrom
    /\ lastOp' = IF s.caught THEN "temp-caught" ELSE "temp-ok"
    /\ UNCHANGED <<genVars, timerVars, status, mounted, subscribed, feedVars,
                   nextWindow, rulPrediction, rulFrom>>

\* the buttons of lines 327-332: disabled={autoSending}, disabled={!autoSending}
StartDisabled == autoSending
StopDisabled == ~autoSending

\* the cards of lines 392-407: value={rulPrediction ?? 'Calculating...'}
RulCard == IF rulPrediction = NullPrediction THEN <<"Calculating...">> ELSE rulPrediction
TempCard == IF estimatedTemp = NullPrediction THEN <<"Calculating...">> ELSE estimatedTemp

(***************************************************************************)
(* Unmount: the cleanup of the listener effect runs (line 180).  No effect *)
(* of App clears the interval held in autoRef.                             *)
(***************************************************************************)
Unmount ==
  /\ mounted
  /\ mounted' = FALSE
  /\ subscribed' = FALSE
  /\ lastOp' = "unmount"
  /\ UNCHANGED <<genVars, timerVars, status, feedVars, mlVars>>

(***************************************************************************)
(* Specifications.                                                         *)
(***************************************************************************)
Init ==
  /\ cycle = 0
  /\ genCalls = 0
  /\ values = NoValues
  /\ pendingWrites = 0
  /\ autoRef = Null
  /\ intervals = {}
  /\ nextHandle = 1
  /\ autoSending = FALSE
  /\ status = <<"idle">>
  /\ mounted = TRUE
  /\ subscribed = TRUE
  /\ records = <<>>
  /\ samplingRate = <<"N/A">>
  /\ requests = {}
  /\ nextWindow = 1
  /\ rulPrediction = NullPrediction
  /\ estimatedTemp = NullPrediction
  /\ rulFrom = 0
  /\ tempFrom = 0
  /\ lastOp = "mount"

\* the controls, the timer and the store writes
Next ==
  \/ SendRandomClick
  \/ TimerTick
  \/ WriteSucceeds
  \/ WriteFails
  \/ startAutoSend
  \/ stopAutoSend
  \/ ListenError
  \/ Unmount

Spec == Init /\ [][Next]_vars

\* the feed and the prediction calls
FeedNext ==
  \/ Snapshot
  \/ ListenError
  \/ ClearLocalUI
  \/ RulReply
  \/ TempReply
  \/ Unmount

FeedSpec == Init /\ [][FeedNext]_vars

\* the generator alone, called often enough for the wear to show
GenerateOnly ==
  /\ GeneratorCall(MaxGenCycle)
  /\ lastOp' = "generate"
  /\ UNCHANGED <<pendingWrites, timerVars, status, mounted, subscribed, feedVars, mlVars>>

GenNext == GenerateOnly

GenSpec == Init /\ [][GenNext]_vars

(***************************************************************************)
(* Properties.                                                             *)
(***************************************************************************)

\* C1: at most one interval is ever active, it is the one held in autoRef,
\* and a call of startAutoSend while a timer is held creates no interval
\* and leaves the handle unchanged.
C1_IdempotentStart ==
  [][ /\ Cardinality(intervals') <= 1
      /\ intervals' = (IF autoRef' = Null THEN {} ELSE {autoRef'})
      /\ (lastOp' = "start" /\ autoRef # Null) =>
            (autoRef' = autoRef /\ intervals' = intervals /\ nextHandle' = nextHandle)
    ]_vars

\* startAutoSend ran last, on a held timer: the status of an earlier handler
\* is still shown
C1_Witness ==
  /\ lastOp = "start"
  /\ autoRef # Null
  /\ status = <<"sent">>

\* C2 as stated: stopAutoSend without a timer leaves autoRef, autoSending
\* and status as they were.
C2_StopChangesNothing ==
  [][ (lastOp' = "stop" /\ autoRef = Null) =>
        (autoRef' = autoRef /\ autoSending' = autoSending /\ status' = status) ]_vars

\* C2 amended: stopAutoSend without a timer leaves autoRef empty, the set of
\* running intervals and autoSending as they were, and sets the status to
\* 'auto-stopped'.
C2_StopWithoutTimer ==
  [][ (lastOp' = "stop" /\ autoRef = Null) =>
        /\ autoRef' = Null
        /\ intervals' = intervals
        /\ nextHandle' = nextHandle
        /\ autoSending' = autoSending
        /\ status' = <<"auto-stopped">> ]_vars

\* stopAutoSend ran last and no timer was ever started
C2_Witness ==
  /\ lastOp = "stop"
  /\ nextHandle = 1
  /\ status = <<"auto-stopped">>

\* C3: once the component is unmounted no interval is left running and the
\* listener is unsubscribed, so no timer tick and no snapshot callback
\* follows.
C3_TeardownOnUnmount ==
  [][ ~mounted => (intervals = {} /\ ~subscribed /\ lastOp' \notin {"tick", "snapshot"}) ]_vars

\* C4: a failed write or a listen error changes the status only: the
\* interval, its handle, the subscription and the generator's counter are
\* as before, and a mounted component shows the error as its status.
C4_FailureIsolation ==
  [][ /\ lastOp' = "write-error" =>
            /\ autoRef' = autoRef /\ intervals' = intervals /\ autoSending' = autoSending
            /\ subscribed' = subscribed /\ mounted' = mounted /\ cycle' = cycle
            /\ mounted => (Len(status') = 2 /\ status'[1] = "error: ")
      /\ lastOp' = "listen-error" =>
            /\ autoRef' = autoRef /\ intervals' = intervals /\ autoSending' = autoSending
            /\ subscribed' = subscribed /\ mounted' = mounted /\ cycle' = cycle
            /\ Len(status') = 2 /\ status'[1] = "listen-error: "
    ]_vars

\* a write failed while the interval was running, and the interval still is
C4_Witness ==
  /\ lastOp = "write-error"
  /\ status = <<"error: ", "unavailable">>
  /\ autoRef # Null
  /\ autoRef \in intervals

\* C5: after a prediction call that failed (fetch or res.json() rejected, or
\* the reply lacks its field) the card of that prediction shows no value.
C5_PredictionUnavailable ==
  /\ lastOp \in {"rul-caught", "rul-no-field"} => RulCard = <<"Calculating...">>
  /\ lastOp = "temp-caught" => TempCard = <<"Calculating...">>

\* C6: cycle equals the number of generator calls, every step leaves it or
\* adds one (a send or a tick adds one, nothing else changes it), the k-th
\* sample has rpm 5000 - k, and rpm never rises from one sample to the next.
C6_MonotonicCounter ==
  [][ /\ cycle' = genCalls'
      /\ cycle' = (IF lastOp' \in {"send", "tick"} THEN cycle + 1 ELSE cycle)
      /\ genCalls' > 0 => values'.rpm = 5000 - genCalls'
      /\ genCalls > 0 => values'.rpm <= values.rpm
    ]_vars

\* three samples produced, the last by a tick of a restarted timer
C6_Witness ==
  /\ cycle = 3
  /\ values.rpm = 4997
  /\ lastOp = "tick"
  /\ nextHandle >= 3

\* C7: no sample has a negative rpm.
C7_RpmNonNegative == values.rpm >= 0

\* the value of a field of a feed record, 0 when it is undefined
FieldOrZero(f) == IF Len(f) = 0 THEN 0 ELSE f[1]

\* C8: requests are posted only from a feed of at least 20 records; the
\* sequence posted has 20 rows, row i being the (21 - i)-th newest record,
\* and the flattened sequence has 6 entries per row.
C8_GatedWindow ==
  [][ \A q \in requests' \ requests :
        /\ Len(records') >= 20
        /\ q.kind = "rul" =>
              /\ Len(q.body) = 1
              /\ Len(q.body[1]) = 20
              /\ \A i \in 1..20 :
                    LET row == q.body[1][i]
                        r == records'[21 - i]
                    IN  /\ Len(row) = 7
                        /\ row[1] = FieldOrZero(r.temp)
                        /\ row[2] = FieldOrZero(r.rpm)
                        /\ row[3] = FieldOrZero(r.load)
                        /\ row[4] = FieldOrZero(r.vibration)
                        /\ row[5] = FieldOrZero(r.depth)
        /\ q.kind = "temp" => Len(q.body) = 6 * 20
    ]_vars

\* a window was posted from a feed of 50 records
C8_Witness ==
  /\ lastOp = "snapshot"
  /\ Len(records) = 50
  /\ \E q \in requests : q.kind = "rul" /\ q.window = nextWindow - 1

\* C9: in a posted sequence row 1 has temperatureChange 0 and row i > 1 has
\* the temperature of its record minus that of the record before it in
\* time, an undefined temperature counting as 0.
C9_TemperatureChange ==
  [][ \A q \in requests' \ requests :
        q.kind = "rul" =>
          /\ q.body[1][1][6] = 0
          /\ \A i \in 2..Len(q.body[1]) :
                q.body[1][i][6] =
                  FieldOrZero(records'[Len(q.body[1]) + 1 - i].temp)
                  - FieldOrZero(records'[Len(q.body[1]) + 2 - i].temp)
    ]_vars

\* a posted sequence whose first row has a temperature, and which holds the
\* temperatures 30, 32, 31 in a row with the changes 2 and -1
C9_Witness ==
  \E q \in requests :
    /\ q.kind = "rul"
    /\ q.body[1][1][1] = 3100
    /\ q.body[1][1][6] = 0
    /\ \E i \in 1..18 :
         /\ q.body[1][i][1] = 3000 /\ q.body[1][i + 1][1] = 3200 /\ q.body[1][i + 2][1] = 3100
         /\ q.body[1][i + 1][6] = 200 /\ q.body[1][i + 2][6] = -100

\* C10: in every row of every sequence in flight the denominator of
\* torqueEstimate is max(rpm, 1), at least 1, and the numerator load * 9.55.
C10_TorqueDenominator ==
  \A q \in requests :
    q.kind = "rul" =>
      \A i \in 1..Len(q.body[1]) :
        LET row == q.body[1][i] IN
        /\ row[7].den >= 1
        /\ row[7].den = (IF row[2] >= 1 THEN row[2] ELSE 1)
        /\ row[7].num = row[3] * 955

\* a sequence in flight with a row of rpm 0, a row of negative rpm and a row
\* of positive rpm
C10_Witness ==
  \E q \in requests :
    /\ q.kind = "rul"
    /\ \E i \in 1..Len(q.body[1]) : q.body[1][i][2] = 0 /\ q.body[1][i][3] > 0
    /\ \E i \in 1..Len(q.body[1]) : q.body[1][i][2] < 0
    /\ \E i \in 1..Len(q.body[1]) : q.body[1][i][2] > 1 /\ q.body[1][i][7].den > 1

\* C11: between handlers the autoSending flag is true exactly when autoRef
\* holds an interval handle: Start is disabled iff a timer runs, Stop is
\* disabled iff none does.
C11_FlagTimerAgreement ==
  /\ autoSending = (autoRef # Null)
  /\ StartDisabled = (autoRef \in intervals)
  /\ StopDisabled = (intervals = {})

\* a timer started again after a stop, the flag set
C11_Witness ==
  /\ autoSending
  /\ autoRef = 2
  /\ lastOp = "start"

\* C12: a reply with a value that was computed from an older window never
\* replaces the value stored for a newer window: when such a reply is stored, the
\* window behind rulPrediction (behind estimatedTemp) does not go back, so
\* the stored results end as those of the newest window answered.
C12_LatestWindowWins ==
  [][ /\ (lastOp' = "rul-ok" /\ rulPrediction # NaN) => rulFrom' >= rulFrom
      /\ lastOp' = "temp-ok" => tempFrom' >= tempFrom
    ]_vars

====
